---- MODULE Spec2Model ----
(***************************************************************************)
(* A model of the DPLL kernel of src/src/dpll.rs: unit_prop,               *)
(* full_unit_prop, is_pure, pure_lit_elim and the recursive driver dpll.   *)
(*                                                                         *)
(* A Literal(u16, bool) is the pair <<id, polarity>>; a clause is a        *)
(* sequence of literals and the formula f a sequence of clauses (Vec       *)
(* positions 0.. are sequence positions 1..).  var_assigns is a sequence   *)
(* of Option<bool>, slot i of the code at position i + 1, with None the    *)
(* empty sequence and Some(b) the one-element sequence <<b>>.              *)
(***************************************************************************)
EXTENDS Integers, Sequences, FiniteSets, TLC

VARIABLES
    var_assigns,  \* the Assignment slice handed to the running function
    f,            \* the Formula, mutated in place
    pc,           \* position of the running function
    ret,          \* value returned by the call that returned last
    stack,        \* dpll activations waiting for a recursive call to return
    panic,        \* "none", or the abort that ended the run
    f0,           \* the Formula the caller passed in
    va0,          \* the Assignment the caller passed in
    forced,       \* ids pushed on `units` by the rounds of this call
    choices,      \* the variables dpll branched on so far, in order
    conflict      \* a round of the innermost call began with two unit
                  \* clauses on one variable with different polarities

vars == <<var_assigns, f, pc, ret, stack, panic, f0, va0, forced, choices,
          conflict>>

(* Bounds of the inputs the caller may pass in. *)
NumVars == 2
MaxLen == 2
MaxClauses == 3

None == <<>>
Some(b) == <<b>>
Literal(id, pol) == <<id, pol>>

SeqsUpTo(S, k) == UNION {[1..m -> S] : m \in 0..k}
Literals(n) == {Literal(id, pol) : id \in 0..(n - 1), pol \in BOOLEAN}
Clauses(n) == SeqsUpTo(Literals(n), MaxLen)
Formulas(n) == SeqsUpTo(Clauses(n), MaxClauses)
Unassigned(n) == [i \in 1..n |-> None]
Assignments(n) == [1..n -> {None, Some(TRUE), Some(FALSE)}]

\* Vec::remove(i), i counted from 1
Remove(s, i) == SubSeq(s, 1, i - 1) \o SubSeq(s, i + 1, Len(s))

(***************************************************************************)
(* unit_prop                                                               *)
(***************************************************************************)
\* is_unit testing for a non-empty clause
is_unit_nonempty(c) == Len(c) >= 1

is_unit(c) == Len(c) = 1

\* The first loop of unit_prop: the units in clause order.
RECURSIVE CollectUnits(_, _)
CollectUnits(fm, ix) ==
    IF ix > Len(fm) THEN <<>>
    ELSE (IF is_unit(fm[ix]) THEN <<fm[ix][1]>> ELSE <<>>)
             \o CollectUnits(fm, ix + 1)

\* units holds two pairs on one variable with different polarities
ConflictingUnits(units) ==
    \E j, k \in 1..Len(units) :
        units[j][1] = units[k][1] /\ units[j][2] # units[k][2]

\* the first loop without `var_assigns[id as usize] = Some(val)`
RecordUnitsSkipped(va, units, k) == va

\* the first loop writing only to slots that are still None
RECURSIVE RecordUnitsFirstWins(_, _, _)
RecordUnitsFirstWins(va, units, k) ==
    IF k > Len(units) THEN va
    ELSE RecordUnitsFirstWins(
             IF va[units[k][1] + 1] = None
             THEN [va EXCEPT ![units[k][1] + 1] = Some(units[k][2])]
             ELSE va,
             units, k + 1)

\* The first loop's writes to var_assigns, in the same order.
RECURSIVE RecordUnits(_, _, _)
RecordUnits(va, units, k) ==
    IF k > Len(units) THEN va
    ELSE RecordUnits([va EXCEPT ![units[k][1] + 1] = Some(units[k][2])],
                     units, k + 1)

\* the inner loop with `iy += 1` after `clause.remove(iy)` as well, so that
\* the literal following a removed one is never looked at
RECURSIVE ScanClauseSkipNext(_, _, _, _, _)
ScanClauseSkipNext(clause, iy, id, val, changed) ==
    IF iy > Len(clause)
    THEN [clause |-> clause, del |-> FALSE, changed |-> changed]
    ELSE IF clause[iy][1] = id
         THEN IF clause[iy][2] = val
              THEN [clause |-> clause, del |-> TRUE, changed |-> TRUE]
              ELSE ScanClauseSkipNext(Remove(clause, iy), iy + 1, id, val,
                                      TRUE)
         ELSE ScanClauseSkipNext(clause, iy + 1, id, val, changed)

\* the inner loop with `changed = true` only where a literal is removed,
\* not where the clause is marked for deletion
RECURSIVE ScanClauseChangedOnLiteral(_, _, _, _, _)
ScanClauseChangedOnLiteral(clause, iy, id, val, changed) ==
    IF iy > Len(clause)
    THEN [clause |-> clause, del |-> FALSE, changed |-> changed]
    ELSE IF clause[iy][1] = id
         THEN IF clause[iy][2] = val
              THEN [clause |-> clause, del |-> TRUE, changed |-> changed]
              ELSE ScanClauseChangedOnLiteral(Remove(clause, iy), iy, id,
                                              val, TRUE)
         ELSE ScanClauseChangedOnLiteral(clause, iy + 1, id, val, changed)

\* the inner loop deleting the clause on any literal of the unit's variable,
\* without the polarity test `lit.1 == val`
RECURSIVE ScanClauseAnyPolarity(_, _, _, _, _)
ScanClauseAnyPolarity(clause, iy, id, val, changed) ==
    IF iy > Len(clause)
    THEN [clause |-> clause, del |-> FALSE, changed |-> changed]
    ELSE IF clause[iy][1] = id
         THEN [clause |-> clause, del |-> TRUE, changed |-> TRUE]
         ELSE ScanClauseAnyPolarity(clause, iy + 1, id, val, changed)

\* The inner while loop over the literals of one clause.
RECURSIVE ScanClause(_, _, _, _, _)
ScanClause(clause, iy, id, val, changed) ==
    IF iy > Len(clause)
    THEN [clause |-> clause, del |-> FALSE, changed |-> changed]
    ELSE IF clause[iy][1] = id
         THEN IF clause[iy][2] = val
              THEN [clause |-> clause, del |-> TRUE, changed |-> TRUE]
              ELSE ScanClause(Remove(clause, iy), iy, id, val, TRUE)
         ELSE ScanClause(clause, iy + 1, id, val, changed)

\* the loop over the clauses removing a clause that is empty after the scan
\* too
RECURSIVE PropagateUnitDropEmpty(_, _, _, _, _)
PropagateUnitDropEmpty(fm, ix, id, val, changed) ==
    IF ix > Len(fm) THEN [f |-> fm, changed |-> changed]
    ELSE LET s == ScanClause(fm[ix], 1, id, val, changed)
         IN  IF s.del \/ s.clause = <<>>
             THEN PropagateUnitDropEmpty(Remove(fm, ix), ix, id, val,
                                         s.changed)
             ELSE PropagateUnitDropEmpty([fm EXCEPT ![ix] = s.clause],
                                         ix + 1, id, val, s.changed)

\* The while loop over the clauses, for one unit.
RECURSIVE PropagateUnit(_, _, _, _, _)
PropagateUnit(fm, ix, id, val, changed) ==
    IF ix > Len(fm) THEN [f |-> fm, changed |-> changed]
    ELSE LET s == ScanClause(fm[ix], 1, id, val, changed)
         IN  IF s.del
             THEN PropagateUnit(Remove(fm, ix), ix, id, val, s.changed)
             ELSE PropagateUnit([fm EXCEPT ![ix] = s.clause], ix + 1,
                                id, val, s.changed)

\* The for loop over units.
RECURSIVE PropagateUnits(_, _, _, _)
PropagateUnits(fm, units, k, changed) ==
    IF k > Len(units) THEN [f |-> fm, changed |-> changed]
    ELSE LET r == PropagateUnit(fm, 1, units[k][1], units[k][2], changed)
         IN  PropagateUnits(r.f, units, k + 1, r.changed)

unit_prop(va, fm) ==
    LET units == CollectUnits(fm, 1)
        va1 == RecordUnits(va, units, 1)
    IN  IF units = <<>>
        THEN [var_assigns |-> va1, f |-> fm, ret |-> FALSE, units |-> units]
        ELSE LET r == PropagateUnits(fm, units, 1, FALSE)
             IN  [var_assigns |-> va1, f |-> r.f, ret |-> r.changed,
                  units |-> units]

\* full_unit_prop with `if changed` run once instead of the loop
while_changed_once(changed) == FALSE

\* full_unit_prop: `while changed`
while_changed(changed) == changed

(***************************************************************************)
(* is_pure and pure_lit_elim                                               *)
(***************************************************************************)
RECURSIVE IsPureScan(_, _, _, _, _, _)
IsPureScan(v, fm, ix, iy, seen, val) ==
    IF ix > Len(fm) THEN (IF ~seen THEN None ELSE Some(val))
    ELSE IF iy > Len(fm[ix]) THEN IsPureScan(v, fm, ix + 1, 1, seen, val)
    ELSE LET lit == fm[ix][iy]
         IN  IF v = lit[1]
             THEN IF seen
                  THEN IF val # lit[2] THEN None
                       ELSE IsPureScan(v, fm, ix, iy + 1, seen, val)
                  ELSE IsPureScan(v, fm, ix, iy + 1, TRUE, lit[2])
             ELSE IsPureScan(v, fm, ix, iy + 1, seen, val)

is_pure(v, fm) == IsPureScan(v, fm, 1, 1, FALSE, FALSE)

\* The for loop over the literals of f[ix] that sets del.
HasLit(clause, i, b) ==
    \E k \in 1..Len(clause) : clause[k][1] = i /\ clause[k][2] = b

\* "Delete all clauses containing i"
RECURSIVE DeleteClauses(_, _, _, _)
DeleteClauses(fm, ix, i, b) ==
    IF ix > Len(fm) THEN fm
    ELSE IF HasLit(fm[ix], i, b) THEN DeleteClauses(Remove(fm, ix), ix, i, b)
         ELSE DeleteClauses(fm, ix + 1, i, b)

\* the loop body acting only on a slot that is None
PureLitStepUnassigned(va, fm, i) ==
    LET p == is_pure(i, fm)
    IN  IF p # None /\ va[i + 1] = None
        THEN [var_assigns |-> [va EXCEPT ![i + 1] = Some(p[1])],
              f |-> Append(DeleteClauses(fm, 1, i, p[1]),
                           <<Literal(i, p[1])>>)]
        ELSE [var_assigns |-> va, f |-> fm]

\* The body of the for loop of pure_lit_elim for variable i.
PureLitStep(va, fm, i) ==
    LET p == is_pure(i, fm)
    IN  IF p # None
        THEN [var_assigns |-> [va EXCEPT ![i + 1] = Some(p[1])],
              f |-> Append(DeleteClauses(fm, 1, i, p[1]),
                           <<Literal(i, p[1])>>)]
        ELSE [var_assigns |-> va, f |-> fm]

\* pure_lit_elim deciding purity on the formula it was handed, not on the
\* formula as reduced so far
RECURSIVE PureLitLoopSnapshot(_, _, _, _)
PureLitLoopSnapshot(va, fm, orig, i) ==
    IF i >= Len(va) THEN [var_assigns |-> va, f |-> fm]
    ELSE LET p == is_pure(i, orig)
         IN  IF p # None
             THEN PureLitLoopSnapshot(
                      [va EXCEPT ![i + 1] = Some(p[1])],
                      Append(DeleteClauses(fm, 1, i, p[1]),
                             <<Literal(i, p[1])>>),
                      orig, i + 1)
             ELSE PureLitLoopSnapshot(va, fm, orig, i + 1)

pure_lit_elim_snapshot(va, fm) == PureLitLoopSnapshot(va, fm, fm, 0)

RECURSIVE PureLitLoop(_, _, _)
PureLitLoop(va, fm, i) ==
    IF i >= Len(va) THEN [var_assigns |-> va, f |-> fm]
    ELSE LET s == PureLitStep(va, fm, i)
         IN  PureLitLoop(s.var_assigns, s.f, i + 1)

pure_lit_elim(va, fm) == PureLitLoop(va, fm, 0)

(***************************************************************************)
(* dpll                                                                    *)
(*                                                                         *)
(* The recursion is an explicit stack: a frame is pushed when a node makes *)
(* its first recursive call and popped when that node returns.  pc is the  *)
(* position of the innermost activation:                                   *)
(*   "unit_prop"      inside full_unit_prop, about to call unit_prop       *)
(*   "pure_lit_elim"  full_unit_prop has returned                          *)
(*   "select"         at `if f.is_empty()`                                 *)
(*   "returned"       the innermost activation has returned `ret`          *)
(*   "panic"          the process aborted                                  *)
(***************************************************************************)
\* var_assigns.iter().rposition(|&x| x.is_none()): the last None slot
position_last(va) ==
    IF \E i \in 1..Len(va) : va[i] = None
    THEN Some((CHOOSE i \in 1..Len(va) :
                  va[i] = None /\ \A j \in (i + 1)..Len(va) : va[j] # None)
              - 1)
    ELSE None

\* var_assigns.iter().position(|&x| x.is_none())
position(va) ==
    IF \E i \in 1..Len(va) : va[i] = None
    THEN Some((CHOOSE i \in 1..Len(va) :
                  va[i] = None /\ \A j \in 1..(i - 1) : va[j] # None) - 1)
    ELSE None

NumUnassigned(va) == Cardinality({i \in 1..Len(va) : va[i] = None})

\* f.iter().any(|c| c.is_empty())
AnyEmpty(fm) == \E ix \in 1..Len(fm) : fm[ix] = <<>>

\* f.last_mut().unwrap()[0].1 = false
FlipLast(fm) ==
    [fm EXCEPT ![Len(fm)] = [@ EXCEPT ![1] = Literal(@[1], FALSE)]]

\* Cap of the explicit call stack: one more than the nesting n variables allow.
MaxDepth == NumVars + 1

InitDpll ==
    \E n \in 0..NumVars :
        \E fm \in Formulas(n) :
            /\ f = fm
            /\ f0 = fm
            /\ var_assigns = Unassigned(n)
            /\ va0 = Unassigned(n)
            /\ pc = "unit_prop"
            /\ ret = FALSE
            /\ stack = <<>>
            /\ panic = "none"
            /\ forced = {}
            /\ choices = <<>>
            /\ conflict = FALSE

\* One iteration of full_unit_prop inside dpll.
DpllUnitProp ==
    /\ pc = "unit_prop"
    /\ LET r == unit_prop(var_assigns, f)
       IN  /\ var_assigns' = r.var_assigns
           /\ f' = r.f
           /\ pc' = IF while_changed(r.ret) THEN "unit_prop"
                    ELSE "pure_lit_elim"
           /\ conflict' = (conflict \/ ConflictingUnits(r.units))
    /\ UNCHANGED <<ret, stack, panic, f0, va0, forced, choices>>

DpllPureLitElim ==
    /\ pc = "pure_lit_elim"
    /\ LET r == pure_lit_elim(var_assigns, f)
       IN  /\ var_assigns' = r.var_assigns
           /\ f' = r.f
    /\ pc' = "select"
    /\ UNCHANGED <<ret, stack, panic, f0, va0, forced, choices, conflict>>

\* if f.is_empty() { return true; }
DpllReturnTrue ==
    /\ pc = "select"
    /\ f = <<>>
    /\ ret' = TRUE
    /\ pc' = "returned"
    /\ UNCHANGED <<var_assigns, f, stack, panic, f0, va0, forced,
                   choices, conflict>>

\* if f.iter().any(|c| c.is_empty()) { return false; }
DpllReturnFalse ==
    /\ pc = "select"
    /\ f # <<>>
    /\ AnyEmpty(f)
    /\ ret' = FALSE
    /\ pc' = "returned"
    /\ UNCHANGED <<var_assigns, f, stack, panic, f0, va0, forced,
                   choices, conflict>>

\* x.expect("We have assigned all variables, yet the formula is not empty.")
DpllExpectPanic ==
    /\ pc = "select"
    /\ f # <<>>
    /\ ~AnyEmpty(f)
    /\ position(var_assigns) = None
    /\ pc' = "panic"
    /\ panic' = "expect"
    /\ UNCHANGED <<var_assigns, f, ret, stack, f0, va0, forced,
                   choices, conflict>>

\* f.push(vec![Literal(x_v, true)]); dpll(var_assigns, f)
DpllBranch ==
    /\ pc = "select"
    /\ f # <<>>
    /\ ~AnyEmpty(f)
    /\ position(var_assigns) # None
    /\ Len(stack) < MaxDepth
    /\ LET x_v == position(var_assigns)[1]
       IN  /\ f' = Append(f, <<Literal(x_v, TRUE)>>)
           /\ stack' = Append(stack,
                  [x_v |-> x_v, second |-> FALSE,
                   unassigned |-> NumUnassigned(var_assigns)])
           /\ choices' = Append(choices, x_v)
    /\ pc' = "unit_prop"
    /\ conflict' = FALSE
    /\ UNCHANGED <<var_assigns, ret, panic, f0, va0, forced>>

Top == stack[Len(stack)]
Pop == SubSeq(stack, 1, Len(stack) - 1)

\* if dpll(var_assigns, f) { return true; }
DpllFirstTrue ==
    /\ pc = "returned"
    /\ stack # <<>>
    /\ ~Top.second
    /\ ret = TRUE
    /\ stack' = Pop
    /\ UNCHANGED <<var_assigns, f, pc, ret, panic, f0, va0, forced,
                   choices, conflict>>

\* f.last_mut().unwrap()[0].1 = false; dpll(var_assigns, f)
DpllFlip ==
    /\ pc = "returned"
    /\ stack # <<>>
    /\ ~Top.second
    /\ ret = FALSE
    /\ f # <<>>
    /\ f[Len(f)] # <<>>
    /\ f' = FlipLast(f)
    /\ stack' = [stack EXCEPT ![Len(stack)].second = TRUE]
    /\ pc' = "unit_prop"
    /\ conflict' = FALSE
    /\ UNCHANGED <<var_assigns, ret, panic, f0, va0, forced, choices>>

\* unwrap() on an empty f, or [0] on an empty last clause
DpllFlipPanic ==
    /\ pc = "returned"
    /\ stack # <<>>
    /\ ~Top.second
    /\ ret = FALSE
    /\ (f = <<>> \/ f[Len(f)] = <<>>)
    /\ pc' = "panic"
    /\ panic' = IF f = <<>> THEN "unwrap" ELSE "index"
    /\ UNCHANGED <<var_assigns, f, ret, stack, f0, va0, forced,
                   choices, conflict>>

\* the second recursive call is the node's return value
DpllSecondReturn ==
    /\ pc = "returned"
    /\ stack # <<>>
    /\ Top.second
    /\ stack' = Pop
    /\ UNCHANGED <<var_assigns, f, pc, ret, panic, f0, va0, forced,
                   choices, conflict>>

Next ==
    \/ DpllUnitProp
    \/ DpllPureLitElim
    \/ DpllReturnTrue
    \/ DpllReturnFalse
    \/ DpllExpectPanic
    \/ DpllBranch
    \/ DpllFirstTrue
    \/ DpllFlip
    \/ DpllFlipPanic
    \/ DpllSecondReturn

Spec == InitDpll /\ [][Next]_vars

\* The top-level call has returned.
Returned == pc = "returned" /\ stack = <<>>

(***************************************************************************)
(* The functions called on their own, as the unit tests call them: on any  *)
(* formula with any slots.  pc is "call" before the call (for              *)
(* full_unit_prop: before each round) and "done" after it.                 *)
(***************************************************************************)
T == TRUE
F == FALSE

\* the input of the propagation example: 4 variables
ExampleUnitProp ==
    << <<Literal(0, T)>>,
       <<Literal(1, F), Literal(0, F)>>,
       <<Literal(2, F), Literal(1, F)>>,
       <<Literal(2, T), Literal(3, F), Literal(0, F)>> >>

\* tests::check_pure_elim: 10 variables
ExamplePureElim ==
    << <<Literal(0, T), Literal(3, T)>>,
       <<Literal(0, T), Literal(2, F), Literal(5, F)>>,
       <<Literal(0, T), Literal(5, T), Literal(9, T)>>,
       <<Literal(1, T), Literal(8, T)>>,
       <<Literal(4, F), Literal(5, T), Literal(6, F)>>,
       <<Literal(4, T), Literal(7, T), Literal(9, F)>> >>

InitCall(fm, va) ==
    /\ f = fm
    /\ f0 = fm
    /\ var_assigns = va
    /\ va0 = va
    /\ pc = "call"
    /\ ret = FALSE
    /\ stack = <<>>
    /\ panic = "none"
    /\ forced = {}
    /\ choices = <<>>
    /\ conflict = FALSE

InitAny ==
    \E n \in 0..NumVars :
        \E fm \in Formulas(n) : \E va \in Assignments(n) : InitCall(fm, va)

InitUnitProp == InitAny \/ InitCall(ExampleUnitProp, Unassigned(4))

InitPureLitElim == InitAny \/ InitCall(ExamplePureElim, Unassigned(10))

Ids(units) == {units[k][1] : k \in 1..Len(units)}

\* unit_prop(var_assigns, f)
CallUnitProp ==
    /\ pc = "call"
    /\ LET r == unit_prop(var_assigns, f)
       IN  /\ var_assigns' = r.var_assigns
           /\ f' = r.f
           /\ ret' = r.ret
           /\ forced' = Ids(r.units)
           /\ conflict' = ConflictingUnits(r.units)
    /\ pc' = "done"
    /\ UNCHANGED <<stack, panic, f0, va0, choices>>

\* one iteration of full_unit_prop(var_assigns, f)
FullUnitPropRound ==
    /\ pc = "call"
    /\ LET r == unit_prop(var_assigns, f)
       IN  /\ var_assigns' = r.var_assigns
           /\ f' = r.f
           /\ ret' = r.ret
           /\ forced' = forced \cup Ids(r.units)
           /\ pc' = IF while_changed(r.ret) THEN "call" ELSE "done"
           /\ conflict' = (conflict \/ ConflictingUnits(r.units))
    /\ UNCHANGED <<stack, panic, f0, va0, choices>>

\* pure_lit_elim(var_assigns, f)
CallPureLitElim ==
    /\ pc = "call"
    /\ LET r == pure_lit_elim(var_assigns, f)
       IN  /\ var_assigns' = r.var_assigns
           /\ f' = r.f
    /\ pc' = "done"
    /\ UNCHANGED <<ret, stack, panic, f0, va0, forced, choices, conflict>>

SpecUnitProp == InitUnitProp /\ [][CallUnitProp]_vars

SpecFullUnitProp == InitUnitProp /\ [][FullUnitPropRound]_vars

SpecPureLitElim == InitPureLitElim /\ [][CallPureLitElim]_vars

(***************************************************************************)
(* What the claims speak of.                                               *)
(***************************************************************************)
\* Literal lit is true under the slots va (an unassigned slot satisfies nothing).
LitTrue(va, lit) == va[lit[1] + 1] = Some(lit[2])
ClauseTrue(va, clause) == \E k \in 1..Len(clause) : LitTrue(va, clause[k])
Satisfies(va, fm) == \A ix \in 1..Len(fm) : ClauseTrue(va, fm[ix])

\* Brute force over the total assignments of the n variables.
Satisfiable(fm, n) ==
    \E a \in [1..n -> BOOLEAN] : Satisfies([i \in 1..n |-> Some(a[i])], fm)

\* A node whose first recursive call has just returned false: it flips next.
AtFlip == pc = "returned" /\ stack # <<>> /\ ~Top.second /\ ret = FALSE

\* C1: soundness. When the top-level dpll call returns true, every clause of
\* the original formula holds a literal (v, p) whose slot is Some(p).
C1_Soundness == (Returned /\ ret = TRUE) => Satisfies(var_assigns, f0)

\* dpll returned true after at least one branch step on a formula of two or
\* more clauses.
C1_Witness == Returned /\ ret = TRUE /\ choices # <<>> /\ Len(f0) >= 2

\* C2: completeness. When the top-level dpll call returns false, no total
\* assignment of the n variables satisfies the original formula.
C2_Completeness ==
    (Returned /\ ret = FALSE) => ~Satisfiable(f0, Len(va0))

\* C3: on an unsatisfiable formula dpll never aborts, and the value it returns
\* is false.
C3_UnsatReturnsFalse ==
    ~Satisfiable(f0, Len(va0)) =>
        /\ pc # "panic"
        /\ Returned => ret = FALSE

\* C4: after propagation and elimination dpll is never at the variable
\* selection with every slot assigned, a non-empty formula and no empty
\* clause: the expect never fires.
C4_ExpectUnreachable ==
    ~(/\ pc = "select"
      /\ f # <<>>
      /\ ~AnyEmpty(f)
      /\ position(var_assigns) = None)

\* C10: when a node flips its assumption, the last clause of the formula is the
\* unit clause {(x, true)} the node appended in its branch step.
C10_FlipsOwnAssumption ==
    AtFlip => (f # <<>> /\ f[Len(f)] = <<Literal(Top.x_v, TRUE)>>)

\* How far the depth-first run has come, as a number in base 7 whose digit i
\* is the progress at nesting level i: 0..2 the innermost call before it
\* branches, 3 and 4 a node waiting for its first and its second recursive
\* call, 5 a call that has returned, 6 an abort.
RECURSIVE Pow7(_)
Pow7(k) == IF k = 0 THEN 1 ELSE 7 * Pow7(k - 1)

PcDigit ==
    CASE pc = "unit_prop" -> 0
      [] pc = "pure_lit_elim" -> 1
      [] pc = "select" -> 2
      [] pc = "returned" -> 5
      [] pc = "panic" -> 6

RECURSIVE FramesTime(_, _)
FramesTime(st, i) ==
    IF i > Len(st) THEN 0
    ELSE (IF st[i].second THEN 4 ELSE 3) * Pow7(MaxDepth + 1 - i)
             + FramesTime(st, i + 1)

DfsTime == FramesTime(stack, 1) + PcDigit * Pow7(MaxDepth - Len(stack))

\* C9: termination of dpll. Every step advances the depth-first run or, at the
\* same place (a further propagation round), shrinks the formula, so the run
\* ends; every recursive call, once its own propagation is done, has strictly
\* fewer unassigned slots than its caller had when it picked its branching
\* variable; and no more than n branch steps are ever nested.
C9_Termination ==
    /\ [][\/ DfsTime' > DfsTime
          \/ DfsTime' = DfsTime /\ Len(f') < Len(f)]_vars
    /\ [](/\ pc = "pure_lit_elim"
          /\ stack # <<>>
          => NumUnassigned(var_assigns) < Top.unassigned)
    /\ [](Len(stack) <= Len(var_assigns))

\* Two branch steps are nested and the inner call has finished propagating.
C9_Witness == Len(stack) >= 2 /\ pc = "pure_lit_elim"

NoUnit(fm) == \A ix \in 1..Len(fm) : Len(fm[ix]) # 1
Mentions(clause, v) == \E k \in 1..Len(clause) : clause[k][1] = v
Occurs(fm, v) == \E ix \in 1..Len(fm) : Mentions(fm[ix], v)

\* C5: on a formula without a clause of size 1, unit_prop returns false and
\* leaves the formula and every slot as they were.
C5_FixpointUnchanged ==
    (pc = "done" /\ NoUnit(f0)) =>
        (ret = FALSE /\ f = f0 /\ var_assigns = va0)

\* unit_prop has returned from a call on a non-empty formula without units,
\* holding a clause of two literals, with some slot already assigned.
C5_Witness ==
    /\ pc = "done"
    /\ NoUnit(f0)
    /\ \E ix \in 1..Len(f0) : Len(f0[ix]) = 2
    /\ \E i \in 1..Len(va0) : va0[i] # None

\* C6: full_unit_prop terminates (every round that is followed by another
\* one has shrunk the formula), and when it has returned the formula holds no
\* unit clause and no literal on a variable that a unit clause forced during
\* the call, whose slot is set; the 4-variable example ends as {2T,3F} with
\* var[0] = true, var[1] = false and the others unassigned.
C6_FullUnitProp ==
    /\ [][pc' = "call" => Len(f') < Len(f)]_vars
    /\ [](pc = "done" =>
            /\ NoUnit(f)
            /\ \A v \in forced : ~Occurs(f, v) /\ var_assigns[v + 1] # None)
    /\ [](pc = "done" /\ f0 = ExampleUnitProp =>
            /\ f = << <<Literal(2, T), Literal(3, F)>> >>
            /\ var_assigns = <<Some(T), Some(F), None, None>>)

\* full_unit_prop has returned after forcing two variables over several
\* rounds, leaving a non-empty formula.
C6_Witness ==
    /\ pc = "done"
    /\ Cardinality(forced) >= 2
    /\ f # <<>>
    /\ Len(f0) - Len(f) >= 2

\* The polarities with which v occurs in fm.
Polarities(fm, v) ==
    {b \in BOOLEAN : \E ix \in 1..Len(fm) : HasLit(fm[ix], v, b)}

\* The clauses of fm that hold no literal made true by slots below limit.
Reduced(fm, va, limit) ==
    LET Kept(clause) ==
            \A k \in 1..Len(clause) :
                clause[k][1] < limit => ~LitTrue(va, clause[k])
    IN  SelectSeq(fm, Kept)

\* The unit clauses {(v, b)} of the variables v >= i assigned in va, ascending.
RECURSIVE UnitsFrom(_, _)
UnitsFrom(va, i) ==
    IF i >= Len(va) THEN <<>>
    ELSE (IF va[i + 1] # None THEN << <<Literal(i, va[i + 1][1])>> >> ELSE <<>>)
             \o UnitsFrom(va, i + 1)

\* C7: one pure_lit_elim call on all-unassigned slots. A variable is assigned
\* exactly when it occurs with one polarity in the formula as reduced by the
\* variables below it, and then with that polarity; the formula returned is
\* the clauses holding no literal of an assigned variable with its polarity,
\* in their original order, followed by the unit clauses of the assigned
\* variables in ascending order; the only clause mentioning an assigned
\* variable is its unit clause; the 6-clause example gives {0T},{1T},{5T},{7T}.
C7_PureLitElim ==
    (pc = "done" /\ va0 = Unassigned(Len(va0))) =>
        /\ \A v \in 0..(Len(va0) - 1) :
              LET pol == Polarities(Reduced(f0, var_assigns, v), v)
              IN  /\ var_assigns[v + 1] # None <=> Cardinality(pol) = 1
                  /\ var_assigns[v + 1] # None => var_assigns[v + 1][1] \in pol
        /\ f = Reduced(f0, var_assigns, Len(va0)) \o UnitsFrom(var_assigns, 0)
        /\ \A v \in 0..(Len(va0) - 1) :
              var_assigns[v + 1] # None =>
                  /\ \A ix \in 1..Len(f) :
                        Mentions(f[ix], v) =>
                            f[ix] = <<Literal(v, var_assigns[v + 1][1])>>
                  /\ Cardinality({ix \in 1..Len(f) : Mentions(f[ix], v)}) = 1
        /\ f0 = ExamplePureElim =>
              f = << <<Literal(0, T)>>, <<Literal(1, T)>>,
                     <<Literal(5, T)>>, <<Literal(7, T)>> >>

\* pure_lit_elim has returned from all-unassigned slots having assigned two
\* variables, one of which occurs with both polarities in the formula handed
\* in and became pure only once the clauses of a lower variable were gone.
C7_Witness ==
    /\ pc = "done"
    /\ va0 = Unassigned(Len(va0))
    /\ Len(UnitsFrom(var_assigns, 0)) >= 2
    /\ \E v \in 0..(Len(va0) - 1) :
          /\ var_assigns[v + 1] # None
          /\ Cardinality(Polarities(f0, v)) = 2

\* C8 as claimed: pure_lit_elim leaves every slot that holds true or false
\* when it is invoked as it is, and removes or appends no clause on account
\* of such a variable: with every slot assigned it returns the formula as it
\* was handed in.
C8_OnlyUnassigned ==
    pc = "done" =>
        /\ \A i \in 1..Len(va0) : va0[i] # None => var_assigns[i] = va0[i]
        /\ (\A i \in 1..Len(va0) : va0[i] # None) => f = f0

\* C8 as amended: pure_lit_elim never reads the slots. The formula it returns
\* is the one it returns from all-unassigned slots, and each slot ends with
\* the polarity assigned in that run if there is one, whatever it held
\* before, and otherwise with what it held.
C8_IgnoresSlots ==
    pc = "done" =>
        LET r == pure_lit_elim(Unassigned(Len(va0)), f0)
        IN  /\ f = r.f
            /\ \A i \in 1..Len(va0) :
                  var_assigns[i] = IF r.var_assigns[i] # None
                                   THEN r.var_assigns[i] ELSE va0[i]

\* pure_lit_elim has returned having overwritten a slot that was assigned
\* and having appended the unit clause of that variable.
C8_Witness ==
    /\ pc = "done"
    /\ \E v \in 0..(Len(va0) - 1) :
          /\ va0[v + 1] # None
          /\ var_assigns[v + 1] # va0[v + 1]
          /\ f[Len(f)] = <<Literal(v, var_assigns[v + 1][1])>>

\* The second recursive call of a node has finished its propagation step.
AfterSecondPropagation ==
    pc = "pure_lit_elim" /\ stack # <<>> /\ Top.second

\* C11: when the true branch on x has failed, the second recursive call
\* explores the opposite value of x: once its propagation step is over,
\* the slot of x holds false.
C11_SecondBranchOpposite ==
    AfterSecondPropagation => var_assigns[Top.x_v + 1] = Some(FALSE)

\* The literals of the clauses of size 1 of fm, as a set of pairs.
UnitPairs(fm) ==
    {fm[ix][1] : ix \in {i \in 1..Len(fm) : Len(fm[i]) = 1}}

\* The same, counting for each variable only its first clause of size 1.
FirstUnitPairs(fm) ==
    {fm[ix][1] : ix \in {i \in 1..Len(fm) :
        /\ Len(fm[i]) = 1
        /\ \A j \in 1..(i - 1) :
              Len(fm[j]) = 1 => fm[j][1][1] # fm[i][1][1]}}

\* The clause holds a literal equal to a pair of U.
HoldsPairOf(clause, U) == \E k \in 1..Len(clause) : clause[k] \in U

\* The clause without its literals opposite to a pair of U, in order.
WithoutOpposite(clause, U) ==
    SelectSeq(clause, LAMBDA lit : Literal(lit[1], ~lit[2]) \notin U)

\* The formula a round leaves according to the pairs U: the clauses holding
\* a pair of U are gone, the others have lost the literals opposite to one.
RoundResult(fm, U) ==
    LET kept == SelectSeq(fm, LAMBDA clause : ~HoldsPairOf(clause, U))
    IN  [ix \in 1..Len(kept) |-> WithoutOpposite(kept[ix], U)]

\* Only the slots of the variables of U differ between va and vb.
OnlySlotsOf(U, va, vb) ==
    \A i \in 1..Len(va) :
        va[i] # vb[i] => \E p \in BOOLEAN : Literal(i - 1, p) \in U

\* C12 as stated: with U the pairs of all clauses of size 1 at the start of
\* a unit_prop round, the formula after the round is the input without the
\* clauses holding a pair of U and without the literals opposite to a pair
\* of U, everything else kept in order, and only the slots of U's variables
\* change.
C12_RoundAllUnits ==
    pc = "done" =>
        /\ f = RoundResult(f0, UnitPairs(f0))
        /\ OnlySlotsOf(UnitPairs(f0), va0, var_assigns)

\* C12 as amended: the same with U counting, for each variable, only its
\* first clause of size 1 in formula order; the slots that change are those
\* of the variables of any clause of size 1.
C12_RoundFirstUnits ==
    pc = "done" =>
        /\ f = RoundResult(f0, FirstUnitPairs(f0))
        /\ OnlySlotsOf(UnitPairs(f0), va0, var_assigns)

\* A round has run on two unit clauses of one variable with different
\* polarities and on a clause of two literals that it shortened.
C12_Witness ==
    /\ pc = "done"
    /\ \E v \in 0..(Len(va0) - 1) :
          {Literal(v, TRUE), Literal(v, FALSE)} \subseteq UnitPairs(f0)
    /\ \E ix \in 1..Len(f0), iy \in 1..Len(f) :
          Len(f0[ix]) = 2 /\ f[iy] = <<f0[ix][2]>>

\* The number of clauses of fm plus the number of their literals.
RECURSIVE Size(_)
Size(fm) ==
    IF fm = <<>> THEN 0 ELSE 1 + Len(Head(fm)) + Size(Tail(fm))

\* C13: unit_prop returns true exactly when the round deleted at least one
\* clause or literal, that is exactly when the formula after the round
\* differs from the formula before it.
C13_TrueIffChanged ==
    pc = "done" =>
        /\ (ret = TRUE) <=> (Size(f) < Size(f0))
        /\ (ret = TRUE) <=> (f # f0)

\* A round has returned true having deleted exactly one clause, the unit
\* clause, and nothing else.
C13_Witness ==
    /\ pc = "done"
    /\ ret = TRUE
    /\ Size(f) = Size(f0) - 2
    /\ f # <<>>

\* The polarity of the last clause of size 1 on variable v in fm.
LastUnitPolarity(fm, v) ==
    LET ixs == {i \in 1..Len(fm) : Len(fm[i]) = 1 /\ fm[i][1][1] = v}
        last == CHOOSE i \in ixs : \A j \in ixs : j <= i
    IN  fm[last][1][2]

\* C14: when a round starts with two unit clauses on one variable with
\* different polarities, the round raises no conflict: it returns normally,
\* and the slot of the variable ends with the polarity of the unit clause
\* that comes later in the formula.
C14_LaterUnitWins ==
    \A v \in 0..(Len(va0) - 1) :
        (/\ pc = "done"
         /\ {Literal(v, TRUE), Literal(v, FALSE)} \subseteq UnitPairs(f0))
        => /\ panic = "none"
           /\ ret = TRUE
           /\ var_assigns[v + 1] = Some(LastUnitPolarity(f0, v))

\* A round has run on three unit clauses of one variable, the first and the
\* last of one polarity and the middle one of the other, from a slot that
\* was unassigned, and the slot holds the polarity of the last.
C14_Witness ==
    /\ pc = "done"
    /\ Len(f0) = 3
    /\ \E p \in BOOLEAN :
          /\ f0 = << <<Literal(0, p)>>, <<Literal(0, ~p)>>,
                   <<Literal(0, p)>> >>
          /\ va0[1] = None
          /\ var_assigns[1] = Some(p)

\* A step in which a node branches: a frame is pushed.
BranchStep == Len(stack') = Len(stack) + 1

\* A step in which a node starts its second recursive call.
SecondCallStep ==
    /\ Len(stack') = Len(stack)
    /\ stack # <<>>
    /\ ~Top.second
    /\ stack'[Len(stack')].second

\* C15: whenever dpll branches, the variable it asserts is the unassigned
\* variable of lowest index and it is asserted true first, by the unit clause
\* appended to the formula; the node goes on to its second recursive call
\* only after the true branch has returned false. The branch choices of a
\* run are the variables so asserted, in order.
C15_BranchOrder ==
    /\ [][BranchStep =>
            LET x == stack'[Len(stack')].x_v
            IN  /\ pc = "select"
                /\ var_assigns[x + 1] = None
                /\ \A i \in 0..(x - 1) : var_assigns[i + 1] # None
                /\ f' = Append(f, <<Literal(x, TRUE)>>)
                /\ ~stack'[Len(stack')].second
                /\ choices' = Append(choices, x)]_vars
    /\ [][SecondCallStep =>
            /\ pc = "returned"
            /\ ret = FALSE
            /\ choices' = choices]_vars

\* A node with both slots unassigned has branched on variable 0, its true
\* branch has returned false and it is in its second recursive call.
C15_Witness ==
    /\ choices = <<0>>
    /\ stack # <<>>
    /\ stack[1].unassigned = 2
    /\ Top.second

\* Clause a is clause b with some literals deleted, the others in order.
RECURSIVE IsSubSeq(_, _)
IsSubSeq(a, b) ==
    IF a = <<>> THEN TRUE
    ELSE IF b = <<>> THEN FALSE
    ELSE IF Head(a) = Head(b) THEN IsSubSeq(Tail(a), Tail(b))
    ELSE IsSubSeq(a, Tail(b))

\* C16: throughout a dpll run every clause of f is a unit clause appended by
\* pure_lit_elim or by a branch step, or an original clause with some of its
\* literals deleted: no literal of an original clause has its polarity or
\* variable altered. A clause of f that is not a unit clause is therefore an
\* original clause less some literals.
C16_ClausesFromOriginals ==
    \A ix \in 1..Len(f) :
        Len(f[ix]) # 1 =>
            \E jx \in 1..Len(f0) : IsSubSeq(f[ix], f0[jx])

\* C17: an empty clause, once in f, is removed by no step of dpll (a
\* unit_prop round, pure_lit_elim, a branch step or a flip); whenever a dpll
\* call has returned false f holds an empty clause; and the second recursive
\* call of a node whose first call returned false never returns true.
C17_EmptyClauseStays ==
    /\ [][AnyEmpty(f) => AnyEmpty(f')]_vars
    /\ []((pc = "returned" /\ ret = FALSE) => AnyEmpty(f))
    /\ []((pc = "returned" /\ stack # <<>> /\ Top.second) => ret = FALSE)

\* The second recursive call of a node has returned false, the formula
\* holding an empty clause next to a clause that is not empty.
C17_Witness ==
    /\ pc = "returned"
    /\ stack # <<>>
    /\ Top.second
    /\ ret = FALSE
    /\ AnyEmpty(f)
    /\ \E ix \in 1..Len(f) : f[ix] # <<>>

\* C18: a conflict between units derived together is not lost. If a
\* unit_prop round of a dpll call starts with the unit clauses {(v, p)} and
\* {(v, not p)} in f, f holds an empty clause at the end of the round and for
\* the rest of the call, and the call returns false, never true.
C18_ConflictNotLost ==
    /\ [][(pc = "unit_prop" /\ ConflictingUnits(CollectUnits(f, 1)))
            => (conflict' /\ AnyEmpty(f'))]_vars
    /\ []((conflict /\ pc \in {"unit_prop", "pure_lit_elim", "select"})
            => (AnyEmpty(f) /\ f # <<>>))
    /\ [][(conflict /\ pc = "select") => (pc' = "returned" /\ ~ret')]_vars
    /\ []((conflict /\ pc = "returned") => ret = FALSE)

\* The first recursive call of a node has met, in one of its rounds, two
\* unit clauses on one variable with different polarities that were not
\* both unit clauses of the original formula, and has returned false.
C18_Witness ==
    /\ conflict
    /\ pc = "returned"
    /\ ret = FALSE
    /\ stack # <<>>
    /\ ~Top.second
    /\ ~ConflictingUnits(CollectUnits(f0, 1))

====
